---------------------------- MODULE Spec2Model ----------------------------
(***************************************************************************)
(* FunctionSolver: tokenizer, parser, printer, simplifier and the          *)
(* iterative-deepening equation search (src/src/tokenizer.ts, parser.ts,   *)
(* solver.ts).                                                             *)
(*                                                                         *)
(* Numbers.  A JavaScript number is modelled as a pair <<n, d>>: the exact *)
(* rational n/d in lowest terms with d > 0, or <<1,0>> (Infinity),         *)
(* <<-1,0>> (-Infinity), <<0,0>> (NaN).  Rounding of float64 and the sign  *)
(* of zero are not modelled; every value the model computes stays in the   *)
(* range where Number.prototype.toString is positional (no exponent).      *)
(*                                                                         *)
(* Text.  A string is a sequence of characters; a maximal run of digits    *)
(* (with an optional decimal part) is one character that carries the       *)
(* number it spells.                                                       *)
(***************************************************************************)
EXTENDS Integers, Sequences, FiniteSets, TLC

----------------------------------------------------------------------------
(* JavaScript numbers *)

Abs(i) == IF i < 0 THEN -i ELSE i

Sign(i) == IF i < 0 THEN -1 ELSE IF i > 0 THEN 1 ELSE 0

RECURSIVE Gcd(_, _)
Gcd(a, b) == IF b = 0 THEN a ELSE Gcd(b, a % b)

Norm(n, d) ==
    IF d = 0 THEN <<Sign(n), 0>>
    ELSE LET g == Gcd(Abs(n), Abs(d))
             s == Sign(d)
         IN  <<(s * n) \div g, (s * d) \div g>>

Num(i) == <<i, 1>>

Infinity == <<1, 0>>

NaN == <<0, 0>>

IsFinite(v) == v[2] # 0

NumNeg(a) == <<-a[1], a[2]>>

NumAbs(a) == <<Abs(a[1]), a[2]>>

NumAdd(a, b) ==
    IF a = NaN \/ b = NaN THEN NaN
    ELSE IF ~IsFinite(a) /\ ~IsFinite(b) THEN (IF a = b THEN a ELSE NaN)
    ELSE IF ~IsFinite(a) THEN a
    ELSE IF ~IsFinite(b) THEN b
    ELSE Norm(a[1] * b[2] + b[1] * a[2], a[2] * b[2])

NumSub(a, b) == NumAdd(a, NumNeg(b))

NumMul(a, b) == Norm(a[1] * b[1], a[2] * b[2])

NumDiv(a, b) ==
    IF ~IsFinite(a) /\ ~IsFinite(b) THEN NaN
    ELSE Norm(a[1] * b[2], a[2] * b[1])

\* a === b on numbers: NaN is equal to nothing
NumEq(a, b) == a # NaN /\ b # NaN /\ a = b

NumLt0(a) == a[1] < 0

NumGt0(a) == a[1] > 0

----------------------------------------------------------------------------
(* parser.ts: the expression model *)

NumberLiteral(v) == [type |-> "NumberLiteral", value |-> v]

Variable(n) == [type |-> "Variable", name |-> n]

BinaryExpression(op, l, r) ==
    [type |-> "BinaryExpression", operator |-> op, left |-> l, right |-> r]

Equation(l, r) == [type |-> "Equation", left |-> l, right |-> r]

\* the value of a property read that finds nothing
Undefined == [type |-> "undefined"]

HasSides(e) == e.type \in {"BinaryExpression", "Equation"}

LeftOf(e) == IF HasSides(e) THEN e.left ELSE Undefined

RightOf(e) == IF HasSides(e) THEN e.right ELSE Undefined

----------------------------------------------------------------------------
(* text *)

Ch(c) == [ch |-> c, num |-> Num(0)]

Digits(v) == [ch |-> "#", num |-> v]

S(c) == <<Ch(c)>>

\* Number.prototype.toString
numberToString(v) ==
    IF v = NaN THEN S("N") \o S("a") \o S("N")
    ELSE IF ~IsFinite(v)
         THEN (IF NumLt0(v) THEN S("-") ELSE <<>>)
              \o S("I") \o S("n") \o S("f") \o S("i") \o S("n") \o S("i")
              \o S("t") \o S("y")
    ELSE IF NumLt0(v) THEN S("-") \o <<Digits(NumAbs(v))>>
    ELSE <<Digits(v)>>

Paren(s) == S("(") \o s \o S(")")

AddSub == {"+", "-"}

MulDiv == {"*", "/"}

\* the left operand's text, parenthesised where the source does
WrapLeft(op, l, leftStr) ==
    IF l.type = "BinaryExpression" /\ l.operator \in AddSub /\ op \in MulDiv
    THEN Paren(leftStr) ELSE leftStr

\* WrapRight without the parentheses that keep - and / left-associative
WrapRightPrecedenceOnly(op, r, rightStr) ==
    IF r.type = "BinaryExpression" /\ r.operator \in AddSub /\ op \in MulDiv
    THEN Paren(rightStr) ELSE rightStr

\* the right operand's text, parenthesised where the source does: the four
\* conditions are tried in turn, each wrapping what the ones before left
WrapRight(op, r, rightStr) ==
    LET rb == r.type = "BinaryExpression"
        r1 == IF rb /\ r.operator \in AddSub /\ op \in MulDiv
              THEN Paren(rightStr) ELSE rightStr
        r2 == IF rb /\ op = "-" /\ r.operator = "-" THEN Paren(r1) ELSE r1
        r3 == IF rb /\ op = "-" /\ r.operator = "+" THEN Paren(r2) ELSE r2
    IN  IF rb /\ op = "/" /\ r.operator \in MulDiv THEN Paren(r3) ELSE r3

RECURSIVE exprToString(_)
exprToString(expr) ==
    IF expr.type = "NumberLiteral" THEN
        IF NumLt0(expr.value) THEN Paren(numberToString(expr.value))
        ELSE numberToString(expr.value)
    ELSE IF expr.type = "Variable" THEN S(expr.name)
    ELSE IF expr.type = "BinaryExpression" THEN
        WrapLeft(expr.operator, expr.left, exprToString(expr.left))
        \o S(" ") \o S(expr.operator) \o S(" ")
        \o WrapRight(expr.operator, expr.right, exprToString(expr.right))
    ELSE IF expr.type = "Equation" THEN
        exprToString(expr.left) \o S(" ") \o S("=") \o S(" ")
            \o exprToString(expr.right)
    ELSE <<>>

----------------------------------------------------------------------------
(* tokenizer.ts *)

Letters == {"x", "y", "I", "n", "f", "i", "t", "N", "a"}

TokenTypeOf(c) ==
    IF c.ch = "#" THEN "Number"
    ELSE IF c.ch = "+" THEN "Plus"
    ELSE IF c.ch = "-" THEN "Minus"
    ELSE IF c.ch = "*" THEN "Multiply"
    ELSE IF c.ch = "/" THEN "Divide"
    ELSE IF c.ch = "(" THEN "Oparen"
    ELSE IF c.ch = ")" THEN "Cparen"
    ELSE IF c.ch = "=" THEN "Equals"
    ELSE IF c.ch \in Letters THEN "Variable"
    ELSE "Unexpected"

Token(c) == [type |-> TokenTypeOf(c), value |-> c]

\* [ok, tokens]: ok is FALSE when tokenize throws "Unexpected character"
RECURSIVE tokenizeFrom(_, _, _)
tokenizeFrom(input, i, tokens) ==
    IF i > Len(input) THEN [ok |-> TRUE, tokens |-> tokens]
    ELSE IF input[i].ch = " " THEN tokenizeFrom(input, i + 1, tokens)
    ELSE IF TokenTypeOf(input[i]) = "Unexpected"
         THEN [ok |-> FALSE, tokens |-> tokens]
    ELSE tokenizeFrom(input, i + 1, Append(tokens, Token(input[i])))

tokenize(input) == tokenizeFrom(input, 1, <<>>)

----------------------------------------------------------------------------
(* parser.ts: parse.  Every parse function returns [ok, e, pos]: the tree  *)
(* and the position after it, or ok = FALSE when it throws.                *)

Peek(tokens, pos) == IF pos <= Len(tokens) THEN tokens[pos].type ELSE "none"

Ok(e, pos) == [ok |-> TRUE, e |-> e, pos |-> pos]

Thrown(pos) == [ok |-> FALSE, e |-> Undefined, pos |-> pos]

\* The mutually recursive functions of parse, as one operator: rule names
\* the function, left is the operand a loop has built so far.
RECURSIVE parseRule(_, _, _, _)
parseRule(rule, tokens, pos, left) ==
    IF rule = "parseEquation" THEN
        LET l == parseRule("parseAddSubtract", tokens, pos, Undefined)
        IN  IF ~l.ok THEN l
            ELSE IF Peek(tokens, l.pos) = "Equals" THEN
                LET r == parseRule("parseAddSubtract", tokens, l.pos + 1,
                                   Undefined)
                IN  IF ~r.ok THEN r ELSE Ok(Equation(l.e, r.e), r.pos)
            ELSE l
    ELSE IF rule = "parseAddSubtract" THEN
        LET l == parseRule("parseMultiplyDivide", tokens, pos, Undefined)
        IN  IF ~l.ok THEN l
            ELSE parseRule("parseAddSubtract.while", tokens, l.pos, l.e)
    ELSE IF rule = "parseAddSubtract.while" THEN
        IF Peek(tokens, pos) \in {"Plus", "Minus"} THEN
            LET r == parseRule("parseMultiplyDivide", tokens, pos + 1,
                               Undefined)
            IN  IF ~r.ok THEN r
                ELSE parseRule("parseAddSubtract.while", tokens, r.pos,
                         BinaryExpression(tokens[pos].value.ch, left, r.e))
        ELSE Ok(left, pos)
    ELSE IF rule = "parseMultiplyDivide" THEN
        LET l == parseRule("parseUnary", tokens, pos, Undefined)
        IN  IF ~l.ok THEN l
            ELSE parseRule("parseMultiplyDivide.while", tokens, l.pos, l.e)
    ELSE IF rule = "parseMultiplyDivide.while" THEN
        IF Peek(tokens, pos) \in {"Multiply", "Divide"} THEN
            LET r == parseRule("parseUnary", tokens, pos + 1, Undefined)
            IN  IF ~r.ok THEN r
                ELSE parseRule("parseMultiplyDivide.while", tokens, r.pos,
                         BinaryExpression(tokens[pos].value.ch, left, r.e))
        ELSE Ok(left, pos)
    ELSE IF rule = "parseUnary" THEN
        IF Peek(tokens, pos) \in {"Minus", "Plus"} THEN
            LET operand == parseRule("parseUnary", tokens, pos + 1, Undefined)
            IN  IF ~operand.ok THEN operand
                ELSE IF Peek(tokens, pos) = "Minus"
                THEN Ok(BinaryExpression("-", NumberLiteral(Num(0)),
                                         operand.e), operand.pos)
                ELSE operand
        ELSE parseRule("parsePrimary", tokens, pos, Undefined)
    ELSE \* parsePrimary
        IF Peek(tokens, pos) = "none" THEN Thrown(pos)
        ELSE IF Peek(tokens, pos) = "Number"
        THEN Ok(NumberLiteral(tokens[pos].value.num), pos + 1)
        ELSE IF Peek(tokens, pos) = "Variable"
        THEN Ok(Variable(tokens[pos].value.ch), pos + 1)
        ELSE IF Peek(tokens, pos) = "Oparen" THEN
            \* parseExpression is parseEquation
            LET inner == parseRule("parseEquation", tokens, pos + 1, Undefined)
            IN  IF ~inner.ok THEN inner
                ELSE IF Peek(tokens, inner.pos) # "Cparen"
                THEN Thrown(inner.pos)
                ELSE Ok(inner.e, inner.pos + 1)
        ELSE Thrown(pos)

parseExpression(tokens, pos) == parseRule("parseEquation", tokens, pos, Undefined)

\* [ok, e]: ok is FALSE when parse throws
parse(tokens) ==
    LET result == parseExpression(tokens, 1)
    IN  IF ~result.ok THEN [ok |-> FALSE, e |-> Undefined]
        ELSE IF result.pos <= Len(tokens) THEN [ok |-> FALSE, e |-> Undefined]
        ELSE [ok |-> TRUE, e |-> result.e]

\* parse(tokenize(text)), as every caller composes them
parseText(text) ==
    LET t == tokenize(text)
    IN  IF ~t.ok THEN [ok |-> FALSE, e |-> Undefined] ELSE parse(t.tokens)

----------------------------------------------------------------------------
(* solver.ts: the simplifier *)

IsNum(e) == e.type = "NumberLiteral"

IsVar(e) == e.type = "Variable"

IsBin(e) == e.type = "BinaryExpression"

\* e is the literal v (value === v)
IsLit(e, v) == IsNum(e) /\ NumEq(e.value, v)

exprsEqual(expr1, expr2) ==
    IF expr1.type # expr2.type THEN FALSE
    ELSE IF IsNum(expr1) THEN NumEq(expr1.value, expr2.value)
    ELSE IF IsVar(expr1) THEN expr1.name = expr2.name
    ELSE FALSE

\* FoldConstants with the operands of a subtraction exchanged
FoldConstantsSwapped(op, leftVal, rightVal) ==
    IF op = "+" THEN NumAdd(leftVal, rightVal)
    ELSE IF op = "-" THEN NumSub(rightVal, leftVal)
    ELSE IF op = "*" THEN NumMul(leftVal, rightVal)
    ELSE NumDiv(leftVal, rightVal)

FoldConstants(op, leftVal, rightVal) ==
    IF op = "+" THEN NumAdd(leftVal, rightVal)
    ELSE IF op = "-" THEN NumSub(leftVal, rightVal)
    ELSE IF op = "*" THEN NumMul(leftVal, rightVal)
    ELSE NumDiv(leftVal, rightVal)

\* Reassociate that always adds the magnitude of the net constant
ReassociateUnsigned(a, newConst) ==
    IF NumEq(newConst, Num(0)) THEN a
    ELSE BinaryExpression("+", a, NumberLiteral(NumAbs(newConst)))

\* (a + n) - m and (a - n) + m: a, the net constant newConst
Reassociate(a, newConst) ==
    IF NumEq(newConst, Num(0)) THEN a
    ELSE BinaryExpression(IF NumGt0(newConst) THEN "+" ELSE "-", a,
                          NumberLiteral(NumAbs(newConst)))

\* FuseLikeTerms that multiplies the variable by itself
FuseLikeTermsAsProduct(v) == BinaryExpression("*", v, v)

\* var + var = 2 * var
FuseLikeTerms(v) == BinaryExpression("*", NumberLiteral(Num(2)), v)

\* ReduceCoefficient that loses the constant term m
ReduceCoefficientDropsConstant(newCoeff, v, m) ==
    IF NumEq(newCoeff, Num(0)) THEN NumberLiteral(Num(0))
    ELSE IF NumEq(newCoeff, Num(1)) THEN v
    ELSE BinaryExpression("*", NumberLiteral(newCoeff), v)

\* (coeff * v + m) with the coefficient already reduced to newCoeff
ReduceCoefficient(newCoeff, v, m) ==
    IF NumEq(newCoeff, Num(0)) THEN m
    ELSE IF NumEq(newCoeff, Num(1)) THEN BinaryExpression("+", v, m)
    ELSE BinaryExpression("+",
             BinaryExpression("*", NumberLiteral(newCoeff), v), m)

RECURSIVE simplifyOnce(_)
simplifyOnce(expr) ==
    IF expr.type = "Equation" THEN
        Equation(simplifyOnce(expr.left), simplifyOnce(expr.right))
    ELSE IF expr.type = "BinaryExpression" THEN
        LET op == expr.operator
            left == simplifyOnce(expr.left)
            right == simplifyOnce(expr.right)
            lb == left
            rb == right
        IN
        \* constant folding
        IF IsNum(left) /\ IsNum(right) THEN
            IF op \in AddSub \cup MulDiv
            THEN NumberLiteral(FoldConstants(op, left.value, right.value))
            ELSE BinaryExpression(op, left, right)
        \* identity and absorbing elements
        ELSE IF op = "+" /\ IsLit(right, Num(0)) THEN left
        ELSE IF op = "+" /\ IsLit(left, Num(0)) THEN right
        ELSE IF op = "-" /\ IsLit(right, Num(0)) THEN left
        ELSE IF op = "*" /\ IsLit(right, Num(1)) THEN left
        ELSE IF op = "*" /\ IsLit(left, Num(1)) THEN right
        ELSE IF op = "*" /\ IsLit(right, Num(0)) THEN NumberLiteral(Num(0))
        ELSE IF op = "*" /\ IsLit(left, Num(0)) THEN NumberLiteral(Num(0))
        ELSE IF op = "/" /\ IsLit(right, Num(1)) THEN left
        \* var + var = 2 * var
        ELSE IF op = "+" /\ IsVar(left) /\ IsVar(right)
                /\ left.name = right.name
            THEN FuseLikeTerms(left)
        \* (a * n) / n, (n * a) / n, (a / n) * n
        ELSE IF IsBin(left) /\ IsNum(right) /\ op = "/" /\ lb.operator = "*"
                /\ IsLit(lb.right, right.value)
            THEN lb.left
        ELSE IF IsBin(left) /\ IsNum(right) /\ op = "/" /\ lb.operator = "*"
                /\ IsLit(lb.left, right.value)
            THEN lb.right
        ELSE IF IsBin(left) /\ IsNum(right) /\ op = "*" /\ lb.operator = "/"
                /\ ~NumEq(right.value, Num(0)) /\ IsLit(lb.right, right.value)
            THEN lb.left
        \* n * (a / n)
        ELSE IF IsNum(left) /\ IsBin(right) /\ op = "*" /\ rb.operator = "/"
                /\ ~NumEq(left.value, Num(0)) /\ IsLit(rb.right, left.value)
            THEN rb.left
        \* (a + b) - b, (a - b) + b
        ELSE IF IsBin(left) /\ op = "-" /\ lb.operator = "+"
                /\ exprsEqual(lb.right, right)
            THEN lb.left
        ELSE IF IsBin(left) /\ op = "+" /\ lb.operator = "-"
                /\ exprsEqual(lb.right, right)
            THEN lb.left
        \* (a + n) - m, (a - n) + m
        ELSE IF IsBin(left) /\ op = "-" /\ lb.operator = "+"
                /\ IsNum(lb.right) /\ IsNum(right)
            THEN Reassociate(lb.left, NumSub(lb.right.value, right.value))
        ELSE IF IsBin(left) /\ op = "+" /\ lb.operator = "-"
                /\ IsNum(lb.right) /\ IsNum(right)
            THEN Reassociate(lb.left, NumSub(right.value, lb.right.value))
        \* ((n * var) + m) - var
        ELSE IF IsBin(left) /\ op = "-" /\ IsVar(right) /\ lb.operator = "+"
                /\ IsBin(lb.left) /\ lb.left.operator = "*"
                /\ IsNum(lb.left.left) /\ IsVar(lb.left.right)
                /\ lb.left.right.name = right.name
            THEN ReduceCoefficient(NumSub(lb.left.left.value, Num(1)),
                                   lb.left.right, lb.right)
        \* ((a * var) + m) - b * var
        ELSE IF IsBin(left) /\ op = "-" /\ IsBin(right) /\ rb.operator = "*"
                /\ IsNum(rb.left) /\ lb.operator = "+" /\ IsBin(lb.left)
                /\ lb.left.operator = "*" /\ IsNum(lb.left.left)
                /\ IsVar(lb.left.right) /\ IsVar(rb.right)
                /\ lb.left.right.name = rb.right.name
            THEN ReduceCoefficient(NumSub(lb.left.left.value, rb.left.value),
                                   lb.left.right, lb.right)
        \* num * (b +- c), (b +- c) * num
        ELSE IF op = "*" /\ IsNum(left) /\ IsBin(right)
                /\ rb.operator \in AddSub
            THEN BinaryExpression(rb.operator,
                     simplifyOnce(BinaryExpression("*", left, rb.left)),
                     simplifyOnce(BinaryExpression("*", left, rb.right)))
        ELSE IF op = "*" /\ IsNum(right) /\ IsBin(left)
                /\ lb.operator \in AddSub
            THEN BinaryExpression(lb.operator,
                     simplifyOnce(BinaryExpression("*", lb.left, right)),
                     simplifyOnce(BinaryExpression("*", lb.right, right)))
        \* (a +- b) / c
        ELSE IF op = "/" /\ IsBin(left) /\ lb.operator \in AddSub
            THEN BinaryExpression(lb.operator,
                     simplifyOnce(BinaryExpression("/", lb.left, right)),
                     simplifyOnce(BinaryExpression("/", lb.right, right)))
        ELSE BinaryExpression(op, left, right)
    ELSE expr

\* the do-while of simplify: n is the number of the pass being made.  The
\* loop of the source has no bound; the model gives up after MaxPasses.
MaxPasses == 6

RECURSIVE simplifyLoop(_, _)
simplifyLoop(current, n) ==
    LET next == simplifyOnce(current)
    IN  IF exprToString(next) = exprToString(current)
        THEN [expr |-> next, passes |-> n, fixed |-> TRUE]
        ELSE IF n >= MaxPasses
        THEN [expr |-> next, passes |-> n, fixed |-> FALSE]
        ELSE simplifyLoop(next, n + 1)

\* simplify that makes one pass and does not iterate
simplifySinglePass(expr) == simplifyOnce(expr)

simplify(expr) == simplifyLoop(expr, 1).expr

simplifyReachesFixedPoint(expr) == simplifyLoop(expr, 1).fixed

----------------------------------------------------------------------------
(* solver.ts: permutations and the solved form *)

InverseOperator(op) ==
    IF op = "+" THEN "-"
    ELSE IF op = "-" THEN "+"
    ELSE IF op = "*" THEN "/"
    ELSE IF op = "/" THEN "*"
    ELSE op

\* getPermutations that pushes the label of the left operand first
getPermutationsLeftFirst(expr) ==
    IF IsNum(expr) \/ IsVar(expr) THEN <<S("-") \o exprToString(expr)>>
    ELSE IF IsBin(expr) /\ expr.operator \in AddSub \cup MulDiv THEN
        << S(InverseOperator(expr.operator)) \o exprToString(expr.left),
           S(InverseOperator(expr.operator)) \o exprToString(expr.right) >>
    ELSE <<>>

getPermutations(expr) ==
    IF IsNum(expr) \/ IsVar(expr) THEN <<S("-") \o exprToString(expr)>>
    ELSE IF IsBin(expr) /\ expr.operator \in AddSub \cup MulDiv THEN
        << S(InverseOperator(expr.operator)) \o exprToString(expr.right),
           S(InverseOperator(expr.operator)) \o exprToString(expr.left) >>
    ELSE <<>>

\* expr has both sides (getPermutations(undefined) throws)
findPermutations(expr) ==
    getPermutations(expr.left) \o getPermutations(expr.right)

getInversePermutation(perm) ==
    IF perm # <<>> /\ Head(perm).ch \in AddSub \cup MulDiv
    THEN S(InverseOperator(Head(perm).ch)) \o Tail(perm)
    ELSE perm

\* [ok, e]: ok is FALSE when one of the two parses throws
applyPermutation(expr, permutation) ==
    LET l == parseText(Paren(exprToString(expr.left)) \o S(" ") \o permutation)
        r == parseText(Paren(exprToString(expr.right)) \o S(" ") \o permutation)
    IN  IF l.ok /\ r.ok THEN [ok |-> TRUE, e |-> Equation(l.e, r.e)]
        ELSE [ok |-> FALSE, e |-> Undefined]

RECURSIVE onlyNumbers(_)
onlyNumbers(expr) ==
    IF IsNum(expr) THEN TRUE
    ELSE IF IsBin(expr) THEN onlyNumbers(expr.left) /\ onlyNumbers(expr.right)
    ELSE FALSE

\* expr has both sides (lhs.type of undefined throws)
isRealSolution(expr) ==
    IF IsVar(expr.left) THEN onlyNumbers(expr.right)
    ELSE IF IsVar(expr.right) THEN onlyNumbers(expr.left)
    ELSE FALSE

----------------------------------------------------------------------------
(* the value of an expression under an assignment of its variables *)

RECURSIVE Eval(_, _)
Eval(e, env) ==
    IF IsNum(e) THEN e.value
    ELSE IF IsVar(e) THEN env[e.name]
    ELSE LET l == Eval(e.left, env)
             r == Eval(e.right, env)
         IN  CASE e.operator = "+" -> NumAdd(l, r)
               [] e.operator = "-" -> NumSub(l, r)
               [] e.operator = "*" -> NumMul(l, r)
               [] e.operator = "/" -> NumDiv(l, r)

RECURSIVE DivByZero(_, _)
DivByZero(e, env) ==
    IF IsBin(e) THEN
        \/ DivByZero(e.left, env)
        \/ DivByZero(e.right, env)
        \/ (e.operator = "/" /\ Eval(e.right, env) = Num(0))
    ELSE FALSE

\* a and b have the same value wherever evaluating a divides by no zero;
\* equations are compared side by side
RECURSIVE SameValue(_, _, _)
SameValue(a, b, env) ==
    IF a.type = "Equation"
    THEN /\ b.type = "Equation"
         /\ SameValue(a.left, b.left, env)
         /\ SameValue(a.right, b.right, env)
    ELSE DivByZero(a, env) \/ (b.type # "Equation" /\ Eval(a, env) = Eval(b, env))

----------------------------------------------------------------------------
(* the expressions the pure functions are applied to *)

\* trees with at most MaxOps operators are enumerated in full
MaxOps == 2

Operators == {"+", "-", "*", "/"}

VarX == Variable("x")

Lit(i) == NumberLiteral(Num(i))

Leaves == {Lit(0), Lit(1), Lit(2), VarX}

RECURSIVE Trees(_)
Trees(n) ==
    IF n = 0 THEN Leaves
    ELSE UNION { { BinaryExpression(op, l, r) :
                     op \in Operators, l \in Trees(k), r \in Trees(n - 1 - k) } :
                 k \in 0 .. (n - 1) }

\* t is a tree of exactly n operators, for 1 <= n
IsTreeOf(t, n) ==
    \E k \in 0 .. (n - 1) :
        \E op \in Operators, l \in Trees(k), r \in Trees(n - 1 - k) :
            t = BinaryExpression(op, l, r)

Coefficients == {Lit(1), Lit(2), Lit(3)}

\* the shapes of the deeper rewrite rules, and negative literals
RuleShapes ==
    { BinaryExpression("-",
          BinaryExpression("+", BinaryExpression("*", a, VarX), m), VarX) :
        a \in Coefficients, m \in Leaves }
    \cup
    { BinaryExpression("-",
          BinaryExpression("+", BinaryExpression("*", a, VarX), m),
          BinaryExpression("*", b, VarX)) :
        a \in Coefficients, b \in Coefficients, m \in Leaves }
    \cup
    { BinaryExpression(op, NumberLiteral(Num(-1)), t) :
        op \in Operators, t \in Trees(1) }
    \cup
    { BinaryExpression(op, t, NumberLiteral(Num(-2))) :
        op \in Operators, t \in Trees(1) }

Equations == { Equation(l, r) : l \in Trees(1), r \in Leaves }

\* equations with a side whose operand is itself a BinaryExpression
OperandEquations ==
    { Equation(BinaryExpression(op, l, t), r) :
        op \in Operators, l \in Leaves, t \in Trees(1), r \in Leaves }
    \cup
    { Equation(BinaryExpression(op, t, l), r) :
        op \in Operators, l \in Leaves, t \in Trees(1), r \in Leaves }

OtherSubjects == Leaves \cup RuleShapes \cup Equations \cup OperandEquations

Values == {Num(-1), Num(0), Num(2), Num(3)}

Envs == [{"x"} -> Values]

----------------------------------------------------------------------------
(* the equations submitted to the solver, as text *)

Sp(c) == S(" ") \o S(c) \o S(" ")

D(i) == <<Digits(Num(i))>>

\* constants of the submitted equations range over 1 .. MaxConst
MaxConst == 4

Consts == 1 .. MaxConst

Factors == 2 .. MaxConst

XPlus(a, b) == S("x") \o Sp("+") \o D(a) \o Sp("=") \o D(b)

XMinus(a, b) == S("x") \o Sp("-") \o D(a) \o Sp("=") \o D(b)

Times(a, b) == D(a) \o Sp("*") \o S("x") \o Sp("=") \o D(b)

Over(a, b) == S("x") \o Sp("/") \o D(a) \o Sp("=") \o D(b)

TimesPlus(a, b, c) ==
    D(a) \o Sp("*") \o S("x") \o Sp("+") \o D(b) \o Sp("=") \o D(c)

TimesMinus(a, b, c) ==
    D(a) \o Sp("*") \o S("x") \o Sp("-") \o D(b) \o Sp("=") \o D(c)

LinearInputs ==
    { XPlus(a, b) : a \in Consts, b \in Consts }
    \cup { XMinus(a, b) : a \in Consts, b \in Consts }
    \cup { Times(a, a * r) : a \in Factors, r \in Consts }
    \cup { Over(a, b) : a \in Factors, b \in Consts }
    \cup { TimesPlus(a, b, a * r + b) : a \in Factors, b \in Consts, r \in Consts }
    \cup { TimesMinus(t[1], t[2], t[3]) :
             t \in { u \in Factors \X Consts \X Consts :
                        (u[3] + u[2]) % u[1] = 0 } }

\* "x = x": no permutation ever solves it
XEqualsX == S("x") \o Sp("=") \o S("x")

\* "x = 1 / 0": the right side folds to Infinity
XEqualsOneOverZero == S("x") \o Sp("=") \o D(1) \o Sp("/") \o D(0)

\* "x = 0 - 3": the right side folds to a negative literal
XEqualsMinusThree == S("x") \o Sp("=") \o D(0) \o Sp("-") \o D(3)

\* "x + 3", "x": no equation
XPlusThree == S("x") \o Sp("+") \o D(3)

JustX == S("x")

\* "(x = 1) = 2": an equation in parentheses
NestedEquation == Paren(S("x") \o Sp("=") \o D(1)) \o Sp("=") \o D(2)

\* "x + = 1", "x ? 1": rejected by parse and by tokenize
MissingOperand == S("x") \o Sp("+") \o S("=") \o S(" ") \o D(1)

BadCharacter == S("x") \o Sp("?") \o D(1)

\* "2 * x + 3 = 7 + x": the variable on both sides
BothSides ==
    D(2) \o Sp("*") \o S("x") \o Sp("+") \o D(3) \o Sp("=") \o D(7)
        \o Sp("+") \o S("x")

\* "x + x = 10": like terms
XPlusX == S("x") \o Sp("+") \o S("x") \o Sp("=") \o D(10)

\* "0 * (1 / x) = x": the left side is undefined at x = 0
ZeroTimesOneOverX ==
    D(0) \o Sp("*") \o Paren(D(1) \o Sp("/") \o S("x")) \o Sp("=") \o S("x")

\* "x + (x + 1) = 3": three permutations lead to x = 1
ThreeSteps ==
    S("x") \o Sp("+") \o Paren(S("x") \o Sp("+") \o D(1)) \o Sp("=") \o D(3)

OtherInputs ==
    { XEqualsX, XEqualsOneOverZero, XEqualsMinusThree, XPlusThree, JustX,
      NestedEquation, MissingOperand, BadCharacter, BothSides, XPlusX,
      ZeroTimesOneOverX, ThreeSteps }

Inputs == LinearInputs \cup OtherInputs

----------------------------------------------------------------------------
(* state *)

VARIABLES
    subject,           \* pure functions: the expression they are applied to
    derived,           \* pure functions: the result of the first application
    again,             \* pure functions: the result of the second application
    fn,                \* pure functions: what has been applied so far
    pc,                \* where the solve request is
    input,             \* the text submitted
    expired,           \* Date.now() - startTime > timeoutMs
    deadlineHit,       \* a check of buildSolutionTree has seen the deadline passed
    nodes,             \* the SolutionTree under root: nodes[1] is root
    stack,             \* the active calls of buildSolutionTree, innermost last
    maxDepth,          \* findSolution: maxDepth
    iteration,         \* findSolution: iteration
    previous,          \* the tree of the iteration before, which line 515 drops
    solutions,         \* findSolution: solutions
    timedOut,          \* findSolution: timedOut
    result,            \* what findSolution returned
    lastSolutionTree,  \* solver.ts: lastSolutionTree
    calls,             \* the number of findSolution calls made
    shown,             \* what getSolutionTree() returned after the last call
    requests           \* server.js: the POST /solve requests and their handlers

vars == <<subject, derived, again, fn, pc, input, expired, deadlineHit, nodes,
          stack, maxDepth, iteration, previous, solutions, timedOut, result,
          lastSolutionTree, calls, shown, requests>>

pureVars == <<subject, derived, again, fn>>

solverVars == <<pc, input, expired, deadlineHit, nodes, stack, maxDepth,
                iteration, previous, solutions, timedOut, result,
                lastSolutionTree, calls, shown, requests>>

\* the state of findSolution and of solver.ts
solverState == <<pc, input, expired, deadlineHit, nodes, stack, maxDepth,
                      iteration, previous, solutions, timedOut, result,
                      lastSolutionTree, calls, shown>>

\* what a step inside findSolution leaves alone
callerVars == <<subject, derived, again, fn, calls, shown, requests>>

maxIterations == 10

\* lastSolutionTree = null
Null == <<>>

NoResult == [solutions |-> <<>>, timedOut |-> FALSE]

\* getSolutionTree() has not been called since the last findSolution call
NotFetched == [fetched |-> FALSE, tree |-> Null]

\* a SolutionTree node; children holds the positions of its children in nodes;
\* lastPermutation is <<>> where the source leaves it undefined
SolutionTree(expr, lastPermutation) ==
    [expr |-> expr, children |-> <<>>, lastPermutation |-> lastPermutation]

\* POST /solve requests are followed up to MaxRequests of them
MaxRequests == 2

Requests == 1 .. MaxRequests

\* a request that has not been sent; built is the visualization of the tree
\* its findSolution call built, tree the tree of its response
NoRequest == [at |-> "none", text |-> <<>>, built |-> Null, tree |-> Null]

ServerIdle == requests = [r \in Requests |-> NoRequest]

SolverIdle ==
    /\ pc = "idle"
    /\ input = <<>>
    /\ expired = FALSE
    /\ deadlineHit = FALSE
    /\ nodes = <<>>
    /\ stack = <<>>
    /\ maxDepth = 1
    /\ iteration = 0
    /\ previous = <<>>
    /\ solutions = <<>>
    /\ timedOut = FALSE
    /\ result = NoResult
    /\ lastSolutionTree = Null
    /\ calls = 0
    /\ shown = NotFetched

PureIdle ==
    /\ subject = Undefined
    /\ derived = Undefined
    /\ again = Undefined
    /\ fn = "none"

----------------------------------------------------------------------------
(* solver.ts: the search *)

RECURSIVE Concat(_)
Concat(seqs) == IF seqs = <<>> THEN <<>> ELSE Head(seqs) \o Concat(Tail(seqs))

\* extractSolutions.traverse from node i of tree
RECURSIVE traverse(_, _)
traverse(tree, i) ==
    (IF isRealSolution(tree[i].expr) THEN <<tree[i].expr>> ELSE <<>>)
    \o Concat([k \in 1 .. Len(tree[i].children) |->
                  traverse(tree, tree[i].children[k])])

\* extractSolutions that starts at the children of the root
extractSolutionsBelowRoot(tree) ==
    Concat([k \in 1 .. Len(tree[1].children) |->
               traverse(tree, tree[1].children[k])])

extractSolutions(tree) == traverse(tree, 1)

\* the visualization tree, node for node
treeToVisualizationFormat(tree, flag) ==
    [i \in 1 .. Len(tree) |->
        [expr |-> exprToString(tree[i].expr),
         children |-> tree[i].children,
         isSolution |-> isRealSolution(tree[i].expr),
         timedOut |-> flag]]

\* Candidates without the filter on the inverse of lastPermutation
CandidatesUnfiltered(node) == findPermutations(node.expr)

\* the candidate list of buildSolutionTree for a node
Candidates(node) ==
    LET permutations == findPermutations(node.expr)
    IN  IF node.lastPermutation # <<>>
        THEN SelectSeq(permutations,
                 LAMBDA perm : perm # getInversePermutation(node.lastPermutation))
        ELSE permutations

\* Frame that passes currentDepth on without the + 1
FrameAtDepthZero(node, depth) ==
    [node |-> node, depth |-> 0, entered |-> FALSE, permutations |-> <<>>]

Frame(node, depth) ==
    [node |-> node, depth |-> depth, entered |-> FALSE, permutations |-> <<>>]

Top == stack[Len(stack)]

Pop == SubSeq(stack, 1, Len(stack) - 1)

ReplaceTop(frame) == [stack EXCEPT ![Len(stack)] = frame]

\* the deadline passes; the clock is read by the checks below
Tick ==
    /\ pc \in {"loop", "build", "child", "extract"}
    /\ ~expired
    /\ expired' = TRUE
    /\ UNCHANGED <<pc, input, deadlineHit, nodes, stack, maxDepth, iteration,
                   solutions, timedOut, result, lastSolutionTree>>
    /\ UNCHANGED previous
    /\ UNCHANGED callerVars

\* parse(tokenize(text)) throws: findSolution is not called
Reject(text) ==
    /\ pc = "idle"
    /\ ~parseText(text).ok
    /\ pc' = "rejected"
    /\ input' = text
    /\ UNCHANGED <<expired, deadlineHit, nodes, stack, maxDepth, iteration,
                   solutions, timedOut, result, lastSolutionTree>>
    /\ UNCHANGED previous
    /\ UNCHANGED callerVars

\* findSolution(parse(tokenize(text))) up to the for loop
Start(text) ==
    /\ parseText(text).ok
    /\ input' = text
    /\ LET expr == parseText(text).e
       IN  IF simplifyReachesFixedPoint(expr)
           THEN /\ nodes' = <<SolutionTree(simplify(expr), <<>>)>>
                /\ pc' = "loop"
           ELSE /\ nodes' = nodes
                /\ pc' = "hung"
    /\ maxDepth' = 1
    /\ iteration' = 0
    /\ previous' = <<>>
    /\ solutions' = <<>>
    /\ timedOut' = FALSE
    /\ expired' = FALSE
    /\ deadlineHit' = FALSE
    /\ stack' = <<>>
    /\ result' = NoResult
    /\ calls' = calls + 1
    /\ shown' = NotFetched
    /\ UNCHANGED lastSolutionTree
    /\ UNCHANGED pureVars

\* the first request
Solve(text) ==
    /\ pc = "idle"
    /\ Start(text)
    /\ UNCHANGED requests

\* a findSolution call has ended: it returned or it threw
Ended == {"returned", "threw"}

\* sequences of calls are followed for the inputs of Repeated, up to
\* MaxCalls calls
MaxCalls == 2

Repeated == {XEqualsMinusThree, XEqualsOneOverZero, XPlusX}

\* a further request after an earlier one has ended
SolveAgain(text) ==
    /\ pc \in Ended
    /\ calls < MaxCalls
    /\ input \in Repeated
    /\ Start(text)
    /\ UNCHANGED requests

\* getSolutionTree(), between calls
GetSolutionTree ==
    /\ pc \in Ended \cup {"idle"}
    /\ ~shown.fetched
    /\ shown' = [fetched |-> TRUE, tree |-> lastSolutionTree]
    /\ UNCHANGED <<pc, input, expired, deadlineHit, nodes, stack, maxDepth,
                   iteration, previous, solutions, timedOut, result,
                   lastSolutionTree, calls, requests>>
    /\ UNCHANGED pureVars

\* the statements after the for loop; treeToVisualizationFormat reads
\* root.expr.left.type, which throws when root.expr has no sides
ReturnAfterLoop(flag) ==
    IF HasSides(nodes[1].expr)
    THEN /\ lastSolutionTree' = treeToVisualizationFormat(nodes, flag)
         /\ result' = [solutions |-> solutions, timedOut |-> flag]
         /\ pc' = "returned"
    ELSE /\ pc' = "threw"
         /\ UNCHANGED <<lastSolutionTree, result>>

\* LoopExhausted that reports the exhausted search as timed out
LoopExhaustedAsTimeout ==
    /\ pc = "loop"
    /\ iteration >= maxIterations
    /\ ReturnAfterLoop(TRUE)
    /\ UNCHANGED <<input, expired, deadlineHit, nodes, stack, maxDepth,
                   iteration, solutions, timedOut>>
    /\ UNCHANGED previous
    /\ UNCHANGED callerVars

\* iteration < maxIterations fails
LoopExhausted ==
    /\ pc = "loop"
    /\ iteration >= maxIterations
    /\ ReturnAfterLoop(timedOut)
    /\ UNCHANGED <<input, expired, deadlineHit, nodes, stack, maxDepth,
                   iteration, solutions, timedOut>>
    /\ UNCHANGED previous
    /\ UNCHANGED callerVars

\* the timeout check at the top of the loop body
LoopTimeout ==
    /\ pc = "loop"
    /\ iteration < maxIterations
    /\ expired
    /\ timedOut' = TRUE
    /\ ReturnAfterLoop(TRUE)
    /\ UNCHANGED <<input, expired, deadlineHit, nodes, stack, maxDepth,
                   iteration, solutions>>
    /\ UNCHANGED previous
    /\ UNCHANGED callerVars

\* root.children = []; buildSolutionTree(root.expr, root, maxDepth, 0, ...)
LoopBuild ==
    /\ pc = "loop"
    /\ iteration < maxIterations
    /\ ~expired
    /\ previous' = nodes
    /\ nodes' = <<SolutionTree(nodes[1].expr, <<>>)>>
    /\ stack' = <<Frame(1, 0)>>
    /\ pc' = "build"
    /\ UNCHANGED <<input, expired, deadlineHit, maxDepth, iteration, solutions,
                   timedOut, result, lastSolutionTree>>
    /\ UNCHANGED callerVars

\* the deadline checks of buildSolutionTree with startTime = 0, which
\* switches them off
DeadlineCheckOff == FALSE

\* startTime && Date.now() - startTime > timeoutMs
DeadlinePassed == expired

\* the depth test that lets nodes at depth bound be expanded
DepthReachedOnePast(depth, bound) == depth > bound

\* currentDepth >= maxDepth
DepthReached(depth, bound) == depth >= bound

\* a call of buildSolutionTree returns to its caller
Return ==
    /\ stack' = Pop
    /\ pc' = IF Len(stack) = 1 THEN "extract" ELSE "build"

\* buildSolutionTree from its entry to the for loop
BuildEnter ==
    /\ pc = "build"
    /\ ~Top.entered
    /\ IF DeadlinePassed THEN
           /\ deadlineHit' = TRUE
           /\ Return
       ELSE IF DepthReached(Top.depth, maxDepth) THEN
           /\ Return
           /\ UNCHANGED deadlineHit
       ELSE IF ~HasSides(nodes[Top.node].expr) THEN
           \* getPermutations(undefined)
           /\ pc' = "threw"
           /\ UNCHANGED <<stack, deadlineHit>>
       ELSE
           /\ stack' = ReplaceTop([Top EXCEPT
                  !.entered = TRUE,
                  !.permutations = Candidates(nodes[Top.node])])
           /\ UNCHANGED <<pc, deadlineHit>>
    /\ UNCHANGED <<input, expired, nodes, maxDepth, iteration, solutions,
                   timedOut, result, lastSolutionTree>>
    /\ UNCHANGED previous
    /\ UNCHANGED callerVars

\* the head of the for loop of buildSolutionTree and its deadline check
BuildPermutation ==
    /\ pc = "build"
    /\ Top.entered
    /\ IF Top.permutations = <<>> THEN
           /\ Return
           /\ UNCHANGED deadlineHit
       ELSE IF DeadlinePassed THEN
           /\ deadlineHit' = TRUE
           /\ Return
       ELSE
           /\ pc' = "child"
           /\ UNCHANGED <<stack, deadlineHit>>
    /\ UNCHANGED <<input, expired, nodes, maxDepth, iteration, solutions,
                   timedOut, result, lastSolutionTree>>
    /\ UNCHANGED previous
    /\ UNCHANGED callerVars

\* the body of the for loop after the check: the child of perm is made,
\* pushed, and entered when it is not solved
BuildChild ==
    /\ pc = "child"
    /\ LET perm == Head(Top.permutations)
           expr == nodes[Top.node].expr
           newSol == applyPermutation(expr, perm)
           simplifiedSol == simplify(newSol.e)
           child == Len(nodes) + 1
           rest == [Top EXCEPT !.permutations = Tail(Top.permutations)]
       IN  IF ~newSol.ok THEN
               \* parse throws inside applyPermutation
               /\ pc' = "threw"
               /\ UNCHANGED <<nodes, stack>>
           ELSE IF ~simplifyReachesFixedPoint(newSol.e) THEN
               /\ pc' = "hung"
               /\ UNCHANGED <<nodes, stack>>
           ELSE
               /\ nodes' = Append(
                      [nodes EXCEPT ![Top.node].children = Append(@, child)],
                      SolutionTree(simplifiedSol, perm))
               /\ stack' = IF isRealSolution(simplifiedSol)
                           THEN ReplaceTop(rest)
                           ELSE Append(ReplaceTop(rest),
                                       Frame(child, Top.depth + 1))
               /\ pc' = "build"
    /\ UNCHANGED <<input, expired, deadlineHit, maxDepth, iteration, solutions,
                   timedOut, result, lastSolutionTree>>
    /\ UNCHANGED previous
    /\ UNCHANGED callerVars

\* ReturnSolutions that reads the clock for the flags it reports
ReturnSolutionsClockFlag(found) ==
    /\ lastSolutionTree' = treeToVisualizationFormat(nodes, expired)
    /\ result' = [solutions |-> found, timedOut |-> expired]
    /\ pc' = "returned"

\* the return inside the loop: the tree is stored and the solutions are
\* returned, both with the flag false
ReturnSolutions(found) ==
    /\ lastSolutionTree' = treeToVisualizationFormat(nodes, FALSE)
    /\ result' = [solutions |-> found, timedOut |-> FALSE]
    /\ pc' = "returned"

\* extractSolutions(root) and the rest of the loop body
Extract ==
    /\ pc = "extract"
    /\ IF ~HasSides(nodes[1].expr) THEN
           \* isRealSolution reads root.expr.left.type
           /\ pc' = "threw"
           /\ UNCHANGED <<solutions, lastSolutionTree, result, maxDepth,
                          iteration>>
       ELSE IF extractSolutions(nodes) # <<>> THEN
           /\ solutions' = extractSolutions(nodes)
           /\ ReturnSolutions(extractSolutions(nodes))
           /\ UNCHANGED <<maxDepth, iteration>>
       ELSE
           /\ solutions' = <<>>
           /\ maxDepth' = maxDepth + 1
           /\ iteration' = iteration + 1
           /\ pc' = "loop"
           /\ UNCHANGED <<lastSolutionTree, result>>
    /\ UNCHANGED <<input, expired, deadlineHit, nodes, stack, timedOut>>
    /\ UNCHANGED previous
    /\ UNCHANGED callerVars

Step ==
    \/ \E text \in Inputs : Reject(text)
    \/ \E text \in Inputs : Solve(text)
    \/ \E text \in Repeated : SolveAgain(text)
    \/ GetSolutionTree
    \/ LoopExhausted
    \/ LoopTimeout
    \/ LoopBuild
    \/ BuildEnter
    \/ BuildPermutation
    \/ BuildChild
    \/ Extract

Init == SolverIdle /\ PureIdle /\ ServerIdle

Next == Step \/ Tick

Spec == Init /\ [][Next]_vars

-----------------------------------------------------------------------------
(* server.js: POST /solve *)

\* req.body without an equation
NoEquation == <<>>

\* the bodies posted: none, "x + = 1", "x = 1 / 0", "x = x", "x + 1 = 2"
Bodies ==
    {NoEquation, MissingOperand, XEqualsOneOverZero, XEqualsX, XPlus(1, 2)}

\* a handler that also awaits between findSolution and getSolutionTree
SuspendedBeforeTree == {"awaiting", "called"}

\* where a handler is suspended: at the await of line 22 only
Suspended == {"awaiting"}

\* the handler of request r is running: it resumed and has not reached
\* its next await or its end
OnCpu(r) == requests[r].at \in {"running", "called"} \ Suspended

\* handlers run one at a time, each up to its next await
CpuFreeFor(r) == \A q \in Requests \ {r} : ~OnCpu(q)

\* a request arrives, the requests being numbered as they arrive: the
\* handler runs up to the await of the import
Post(r, body) ==
    /\ requests[r].at = "none"
    /\ \A q \in 1 .. r - 1 : requests[q].at # "none"
    /\ CpuFreeFor(r)
    /\ requests' = [requests EXCEPT ![r] =
           IF body = NoEquation
           THEN [@ EXCEPT !.at = "bad"]
           ELSE [@ EXCEPT !.at = "awaiting", !.text = body]]
    /\ UNCHANGED <<pc, input, expired, deadlineHit, nodes, stack, maxDepth,
                   iteration, previous, solutions, timedOut, result,
                   lastSolutionTree, calls, shown>>
    /\ UNCHANGED pureVars

\* the import has resolved: tokenize, parse, and findSolution up to its loop
Resume(r) ==
    /\ requests[r].at = "awaiting"
    /\ CpuFreeFor(r)
    /\ pc = "idle"
    /\ IF parseText(requests[r].text).ok
       THEN /\ Start(requests[r].text)
            /\ requests' = [requests EXCEPT ![r].at = "running"]
       ELSE /\ requests' = [requests EXCEPT ![r].at = "error"]
            /\ UNCHANGED solverState
            /\ UNCHANGED pureVars

\* findSolution has ended: it threw into the catch block, or it returned
\* the result of the tree it built; its locals are gone
Called(r) ==
    /\ requests[r].at = "running"
    /\ pc \in Ended
    /\ requests' = [requests EXCEPT ![r] =
           IF pc = "threw"
           THEN [@ EXCEPT !.at = "error"]
           ELSE [@ EXCEPT !.at = "called",
                          !.built = treeToVisualizationFormat(
                                        nodes, result.timedOut)]]
    /\ pc' = "idle"
    /\ input' = <<>>
    /\ expired' = FALSE
    /\ deadlineHit' = FALSE
    /\ nodes' = <<>>
    /\ stack' = <<>>
    /\ maxDepth' = 1
    /\ iteration' = 0
    /\ previous' = <<>>
    /\ solutions' = <<>>
    /\ timedOut' = FALSE
    /\ result' = NoResult
    /\ UNCHANGED <<lastSolutionTree, calls, shown>>
    /\ UNCHANGED pureVars

\* getSolutionTree() and res.json
Respond(r) ==
    /\ requests[r].at = "called"
    /\ CpuFreeFor(r)
    /\ requests' = [requests EXCEPT ![r] =
           [@ EXCEPT !.at = "ok", !.tree = lastSolutionTree]]
    /\ UNCHANGED solverState
    /\ UNCHANGED pureVars

\* the steps of the findSolution call of the running handler
Run ==
    \/ LoopExhausted
    \/ LoopTimeout
    \/ LoopBuild
    \/ BuildEnter
    \/ BuildPermutation
    \/ BuildChild
    \/ Extract

ServerNext ==
    \/ \E r \in Requests, body \in Bodies : Post(r, body)
    \/ \E r \in Requests : Resume(r)
    \/ \E r \in Requests : Called(r)
    \/ \E r \in Requests : Respond(r)
    \/ Run
    \/ Tick

ServerSpec == Init /\ [][ServerNext]_vars

----------------------------------------------------------------------------
(* the pure functions applied to the enumerated expressions *)

\* simplify(subject)
ApplySimplify ==
    /\ fn = "none"
    /\ simplifyReachesFixedPoint(subject)
    /\ derived' = simplify(subject)
    /\ fn' = "simplify"
    /\ UNCHANGED <<subject, again>>
    /\ UNCHANGED solverVars

\* simplify(simplify(subject))
ApplySimplifyAgain ==
    /\ fn = "simplify"
    /\ simplifyReachesFixedPoint(derived)
    /\ again' = simplify(derived)
    /\ fn' = "simplify.simplify"
    /\ UNCHANGED <<subject, derived>>
    /\ UNCHANGED solverVars

\* applyPermutation(simplify(subject), perm) for a candidate of findPermutations
ApplyPermutation ==
    /\ fn = "simplify"
    /\ derived.type = "Equation"
    /\ \E k \in 1 .. Len(findPermutations(derived)) :
          LET permuted == applyPermutation(derived, findPermutations(derived)[k])
          IN  /\ permuted.ok
              /\ again' = permuted.e
    /\ fn' = "simplify.applyPermutation"
    /\ UNCHANGED <<subject, derived>>
    /\ UNCHANGED solverVars

\* parse(tokenize(exprToString(subject))): derived is Undefined when it throws
ApplyPrintParse ==
    /\ fn = "none"
    /\ derived' = parseText(exprToString(subject)).e
    /\ fn' = "parse"
    /\ UNCHANGED <<subject, again>>
    /\ UNCHANGED solverVars

\* findPermutations(subject): derived is the list of labels
ApplyFindPermutations ==
    /\ fn = "none"
    /\ subject.type = "Equation"
    /\ derived' = findPermutations(subject)
    /\ fn' = "findPermutations"
    /\ UNCHANGED <<subject, again>>
    /\ UNCHANGED solverVars

PureInit ==
    /\ \/ subject \in OtherSubjects
       \/ \E n \in 1 .. MaxOps : IsTreeOf(subject, n)
    /\ derived = Undefined
    /\ again = Undefined
    /\ fn = "none"
    /\ SolverIdle
    /\ ServerIdle

PureNext ==
    \/ ApplySimplify
    \/ ApplySimplifyAgain
    \/ ApplyPermutation
    \/ ApplyPrintParse
    \/ ApplyFindPermutations

PureSpec == PureInit /\ [][PureNext]_vars

----------------------------------------------------------------------------
(* properties *)

\* exprToString(parse(tokenize(exprToString(e)))) = exprToString(e)
PrintsBack(e) ==
    LET back == parseText(exprToString(e))
    IN  back.ok /\ exprToString(back.e) = exprToString(e)

\* C1: simplify is idempotent on the printed form: simplify(simplify(e))
\* prints as simplify(e) does, for every expression and equation e.
C1_SimplifyIdempotent ==
    fn = "simplify.simplify" => exprToString(again) = exprToString(derived)

\* C1 witness: a second simplify has been applied to a result that the first
\* one changed.
C1_Witness ==
    /\ fn = "simplify.simplify"
    /\ exprToString(derived) # exprToString(subject)
    /\ IsBin(derived)

\* C2: simplify preserves value: under every assignment that makes e divide
\* by no zero, simplify(e) has the value of e (side by side for an equation).
C2_SimplifyPreservesValue ==
    fn = "simplify" => \A env \in Envs : SameValue(subject, derived, env)

\* C2 witness: a rewritten expression with a variable, evaluated where the
\* original divides by no zero.
C2_Witness ==
    /\ fn = "simplify"
    /\ IsBin(derived)
    /\ exprToString(derived) # exprToString(subject)
    /\ \E env \in Envs : ~DivByZero(subject, env) /\ Eval(subject, env) # Num(0)

\* C3: every expression produced by simplify or applyPermutation prints the
\* same after parse(tokenize(print(e))), negative literals included.
C3_PrintRoundTripText ==
    /\ fn = "simplify" => PrintsBack(derived)
    /\ fn = "simplify.applyPermutation" => PrintsBack(again)

\* C4: for every expression tree e, parse(tokenize(exprToString(e))) has the
\* value of e under every assignment that makes e divide by no zero.
C4_PrintRoundTripValue ==
    (fn = "parse" /\ subject.type # "Equation") =>
        \A env \in Envs :
            DivByZero(subject, env)
            \/ (derived # Undefined /\ SameValue(subject, derived, env))

\* C4 witness: a tree whose printed form needs parentheses on the right has
\* been printed and parsed back.
C4_Witness ==
    /\ fn = "parse"
    /\ IsBin(subject) /\ IsBin(subject.right)
    /\ subject.operator = "-" /\ subject.right.operator = "-"
    /\ derived # Undefined

\* e is a NumberLiteral or arithmetic on NumberLiterals
RECURSIVE NoVariable(_)
NoVariable(e) ==
    \/ e.type = "NumberLiteral"
    \/ (e.type = "BinaryExpression" /\ NoVariable(e.left) /\ NoVariable(e.right))

SolvedForm(e) ==
    /\ e.type = "Equation"
    /\ \/ (e.left.type = "Variable" /\ NoVariable(e.right))
       \/ (e.right.type = "Variable" /\ NoVariable(e.left))

\* C5: every element of the solutions findSolution returns, whatever the
\* parser produced, is an Equation with one side a bare Variable and the
\* other side free of variables.
C5_SolutionsAreSolvedForm ==
    pc = "returned" =>
        \A i \in 1 .. Len(result.solutions) : SolvedForm(result.solutions[i])

\* C6: a child's lastPermutation is never the inverse of the lastPermutation
\* of a parent that was itself produced by a permutation.
C6_NoInverseOfParent ==
    \A p \in 1 .. Len(nodes) :
        \A k \in 1 .. Len(nodes[p].children) :
            nodes[p].lastPermutation # <<>> =>
                nodes[nodes[p].children[k]].lastPermutation
                    # getInversePermutation(nodes[p].lastPermutation)

\* C6 witness: a node produced by a permutation has a child, and the inverse
\* of its own permutation was among the candidates of its equation.
C6_Witness ==
    \E p \in 1 .. Len(nodes) :
        /\ nodes[p].lastPermutation # <<>>
        /\ nodes[p].children # <<>>
        /\ \E k \in 1 .. Len(findPermutations(nodes[p].expr)) :
              findPermutations(nodes[p].expr)[k]
                  = getInversePermutation(nodes[p].lastPermutation)

\* C7: every findSolution call ends by returning a result: no step of it
\* throws, simplify always reaches its fixed point, and the depth loop makes
\* at most maxIterations builds.
C7_AlwaysReturns ==
    /\ pc \notin {"threw", "hung"}
    /\ iteration <= maxIterations

\* C8: when a deadline check of buildSolutionTree has seen the deadline passed
\* in any of the depth iterations and no solved node was found, findSolution
\* returns timedOut = true.
C8_DeadlineMeansTimedOut ==
    (pc = "returned" /\ deadlineHit /\ result.solutions = <<>>)
        => result.timedOut

\* C9: when the deadline never passes and none of the maxIterations trees
\* holds a solved node, findSolution returns solutions = [] and timedOut =
\* false, and does not throw.
C9_ExhaustionIsNormal ==
    /\ (pc = "returned" /\ ~expired /\ iteration = maxIterations)
           => (result.solutions = <<>> /\ result.timedOut = FALSE)
    /\ (iteration = maxIterations /\ ~expired) => pc \in {"loop", "returned"}

\* C9 witness: the search of "x = x" has returned after all its iterations
\* without the deadline passing.
C9_Witness ==
    /\ pc = "returned"
    /\ ~expired
    /\ iteration = maxIterations
    /\ input = XEqualsX

\* the solutions hold variable = r or r = variable with r one NumberLiteral
HasRoot(sols, r) ==
    \E i \in 1 .. Len(sols) :
        /\ sols[i].type = "Equation"
        /\ \/ (sols[i].left.type = "Variable" /\ sols[i].right = Lit(r))
           \/ (sols[i].right.type = "Variable" /\ sols[i].left = Lit(r))

\* the call for text, whose root is r, has solved it
Solved(text, r) ==
    input = text =>
        /\ pc \notin {"rejected", "threw", "hung"}
        /\ (pc = "returned" /\ ~expired) =>
               (result.timedOut = FALSE /\ HasRoot(result.solutions, r))

\* C10: for x + a = b, x - a = b, a * x = b, x / a = b, a * x + b = c and
\* a * x - b = c with positive integer constants and an integer root r,
\* findSolution run without the deadline passing returns timedOut = false
\* and solutions that hold the root as one NumberLiteral.
C10_LinearShapesSolved ==
    /\ \A a \in Consts, b \in Consts :
          /\ Solved(XPlus(a, b), b - a)
          /\ Solved(XMinus(a, b), b + a)
    /\ \A a \in Factors, b \in Consts :
          /\ Solved(Times(a, a * b), b)
          /\ Solved(Over(a, b), a * b)
    /\ \A a \in Factors, b \in Consts, r \in Consts :
          /\ Solved(TimesPlus(a, b, a * r + b), r)
          /\ (a * r - b \in Consts => Solved(TimesMinus(a, b, a * r - b), r))

\* C10 witness: a two-step equation a * x - b = c has been solved at depth 2
\* without the deadline passing.
C10_Witness ==
    /\ pc = "returned"
    /\ ~expired
    /\ maxDepth = 2
    /\ \E a \in Factors, b \in Consts, c \in Consts : input = TimesMinus(a, b, c)
    /\ result.solutions # <<>>

\* C11: for "2 * x + 3 = 7 + x" findSolution does not throw, and run without
\* the deadline passing it returns timedOut = false and solutions that hold
\* the equation x = 4, 4 being one NumberLiteral.
C11_BothSidesSolved ==
    input = BothSides =>
        /\ pc \notin {"rejected", "threw", "hung"}
        /\ (pc = "returned" /\ ~expired) =>
               /\ result.timedOut = FALSE
               /\ \E i \in 1 .. Len(result.solutions) :
                      result.solutions[i] = Equation(VarX, Lit(4))

\* C11 witness: the call for "2 * x + 3 = 7 + x" has returned solutions
\* without the deadline passing.
C11_Witness ==
    /\ input = BothSides
    /\ pc = "returned"
    /\ ~expired
    /\ result.solutions # <<>>

\* C12: for "x + x = 10" the root of the search is 2 * x = 10, and
\* findSolution run without the deadline passing returns timedOut = false
\* and solutions that hold x = 5, 5 being one NumberLiteral.
C12_LikeTermsSolved ==
    input = XPlusX =>
        /\ pc \notin {"rejected", "threw", "hung"}
        /\ nodes[1].expr
               = Equation(BinaryExpression("*", Lit(2), VarX), Lit(10))
        /\ (pc = "returned" /\ ~expired) =>
               /\ result.timedOut = FALSE
               /\ \E i \in 1 .. Len(result.solutions) :
                      result.solutions[i] = Equation(VarX, Lit(5))

\* C12 witness: the call for "x + x = 10" has returned solutions without the
\* deadline passing.
C12_Witness ==
    /\ input = XPlusX
    /\ pc = "returned"
    /\ ~expired
    /\ result.solutions # <<>>

\* one side of e is a bare Variable and the other holds no variable
SidesSolved(e) ==
    /\ HasSides(e)
    /\ \/ (e.left.type = "Variable" /\ NoVariable(e.right))
       \/ (e.right.type = "Variable" /\ NoVariable(e.left))

\* the nodes of tree below and including node i, depth first, each node
\* before its children and the children in insertion order
RECURSIVE PreOrder(_, _)
PreOrder(tree, i) ==
    LET kids == tree[i].children
        F[k \in 0 .. Len(kids)] ==
            IF k = 0 THEN <<i>> ELSE F[k - 1] \o PreOrder(tree, kids[k])
    IN  F[Len(kids)]

\* the equations of the solved nodes among the nodes listed in order
RECURSIVE SolvedAmong(_, _)
SolvedAmong(tree, order) ==
    IF order = <<>> THEN <<>>
    ELSE (IF SidesSolved(tree[Head(order)].expr)
          THEN <<tree[Head(order)].expr>> ELSE <<>>)
         \o SolvedAmong(tree, Tail(order))

\* C13: when findSolution returns solutions, timedOut is false, the list is
\* the equations of the solved nodes of the last tree built (root included,
\* duplicates kept) in depth-first pre-order, and as many nodes of
\* getSolutionTree() are flagged isSolution as there are solutions.
C13_SolutionsInPreOrder ==
    (pc = "returned" /\ result.solutions # <<>>) =>
        /\ result.timedOut = FALSE
        /\ result.solutions = SolvedAmong(nodes, PreOrder(nodes, 1))
        /\ Cardinality({i \in 1 .. Len(lastSolutionTree) :
                           lastSolutionTree[i].isSolution})
               = Len(result.solutions)

\* C13 witness: a call has returned two or more solutions, one of them the
\* root of the tree.
C13_Witness ==
    /\ pc = "returned"
    /\ Len(result.solutions) >= 2
    /\ SidesSolved(nodes[1].expr)
    /\ Len(nodes) > Len(result.solutions)

\* vis is the visualization of tree, every node carrying flag
IsVisualizationOf(vis, tree, flag) ==
    /\ Len(vis) = Len(tree)
    /\ \A i \in 1 .. Len(tree) :
          /\ vis[i].expr = exprToString(tree[i].expr)
          /\ vis[i].children = tree[i].children
          /\ vis[i].isSolution = SidesSolved(tree[i].expr)
          /\ vis[i].timedOut = flag

\* C14: before the first findSolution call getSolutionTree() returns null;
\* after a call has ended, lastSolutionTree is the visualization of the last
\* tree that call built: its root is the printed simplified input, and when
\* the call returned, every isSolution is the solved predicate of the node
\* and every timedOut is the returned timedOut; getSolutionTree() returns
\* lastSolutionTree.
C14_TreeOfMostRecentCall ==
    /\ calls = 0 => lastSolutionTree = Null
    /\ shown.fetched => shown.tree = lastSolutionTree
    /\ pc \in Ended =>
          /\ lastSolutionTree # Null
          /\ lastSolutionTree[1].expr
                 = exprToString(simplify(parseText(input).e))
    /\ pc = "returned" =>
          IsVisualizationOf(lastSolutionTree, nodes, result.timedOut)

\* no Equation occurs in e
RECURSIVE NoEquationIn(_)
NoEquationIn(e) ==
    /\ e.type # "Equation"
    /\ HasSides(e) => (NoEquationIn(e.left) /\ NoEquationIn(e.right))

\* an Equation occurs in e at the root or not at all
EquationOnlyAtRoot(e) ==
    IF HasSides(e) THEN NoEquationIn(e.left) /\ NoEquationIn(e.right)
    ELSE TRUE

\* C15: in what parse returns for an accepted input, and in every tree that
\* simplify and applyPermutation derive from it during the search, an
\* Equation occurs only as the root.
C15_EquationOnlyAtRoot ==
    /\ (input # <<>> /\ parseText(input).ok)
           => EquationOnlyAtRoot(parseText(input).e)
    /\ \A i \in 1 .. Len(nodes) : EquationOnlyAtRoot(nodes[i].expr)

\* inv(+) = -, inv(-) = +, inv(*) = /, inv(/) = *
Inv(op) ==
    CASE op = "+" -> "-"
      [] op = "-" -> "+"
      [] op = "*" -> "/"
      [] op = "/" -> "*"

\* the operations a side gives rise to: the operator and the operand t, a
\* leaf side once, a BinaryExpression side for its right then its left operand
Operations(side) ==
    IF side.type \in {"NumberLiteral", "Variable"}
    THEN <<[op |-> "-", t |-> side]>>
    ELSE IF side.type = "BinaryExpression"
    THEN <<[op |-> Inv(side.operator), t |-> side.right],
           [op |-> Inv(side.operator), t |-> side.left]>>
    ELSE <<>>

\* the label of an operation: op + print(t)
LabelOf(o) == <<Ch(o.op)>> \o exprToString(o.t)

\* C16: findPermutations(eq) is the labels of the left side followed by the
\* labels of the right side, one "-" + print(side) for a leaf side and
\* inv(op) + print(right operand), inv(op) + print(left operand) for a
\* BinaryExpression side, duplicates kept.
C16_PermutationOrder ==
    fn = "findPermutations" =>
        LET ops == Operations(subject.left) \o Operations(subject.right)
        IN  derived = [k \in 1 .. Len(ops) |-> LabelOf(ops[k])]

\* C16 witness: findPermutations has been applied to an equation with a
\* BinaryExpression on the left and a leaf on the right, and two of its three
\* labels are equal.
C16_Witness ==
    /\ fn = "findPermutations"
    /\ subject.left.type = "BinaryExpression"
    /\ subject.left.left # subject.left.right
    /\ Len(derived) = 3
    /\ derived[2] = derived[3]

\* C17: for a simplified equation eq and a label of findPermutations(eq)
\* generated from the operand t with the operator op, applyPermutation
\* returns an equation whose left side has the value of (eq.left op t) and
\* whose right side has the value of (eq.right op t), t taken as a whole.
C17_PermutationAppliesOperand ==
    fn = "simplify.applyPermutation" =>
        LET ops == Operations(derived.left) \o Operations(derived.right)
        IN  \A k \in 1 .. Len(ops) :
                applyPermutation(derived, LabelOf(ops[k])).e = again =>
                    \A env \in Envs :
                        /\ SameValue(
                               BinaryExpression(ops[k].op, derived.left, ops[k].t),
                               again.left, env)
                        /\ SameValue(
                               BinaryExpression(ops[k].op, derived.right, ops[k].t),
                               again.right, env)

\* the parent of node i of tree, for i > 1
ParentOf(tree, i) ==
    CHOOSE p \in 1 .. Len(tree) :
        \E k \in 1 .. Len(tree[p].children) : tree[p].children[k] = i

\* the number of permutations between the root and node i
RECURSIVE DepthOf(_, _)
DepthOf(tree, i) == IF i = 1 THEN 0 ELSE 1 + DepthOf(tree, ParentOf(tree, i))

\* the label with its leading operator replaced by the inverse operator
SwapLead(label) == <<Ch(Inv(Head(label).ch))>> \o Tail(label)

\* the labels of findPermutations for node, without the inverse of the label
\* that led to node
FilteredLabels(node) ==
    LET all == findPermutations(node.expr)
        keep(l) == node.lastPermutation = <<>> \/ l # SwapLead(node.lastPermutation)
    IN  SelectSeq(all, keep)

\* the labels of the children of node i, in the order of the children
ChildLabels(tree, i) ==
    [k \in 1 .. Len(tree[i].children) |->
        tree[tree[i].children[k]].lastPermutation]

\* C18: in the tree being built or built with the bound maxDepth, every node
\* lies at depth <= maxDepth, nodes at depth maxDepth and solved nodes other
\* than the root have no children, and the children of a node carry the
\* labels of its filtered candidate list in order: a prefix of the list, and
\* the whole list once the build has ended without the deadline passing.
C18_TreeShape ==
    \A i \in 1 .. Len(nodes) :
        LET kids == ChildLabels(nodes, i)
            want == FilteredLabels(nodes[i])
        IN  /\ DepthOf(nodes, i) <= maxDepth
            /\ DepthOf(nodes, i) = maxDepth => kids = <<>>
            /\ (i # 1 /\ SidesSolved(nodes[i].expr)) => kids = <<>>
            /\ kids # <<>> =>
                   /\ Len(kids) <= Len(want)
                   /\ kids = SubSeq(want, 1, Len(kids))
            /\ (pc = "extract" /\ ~deadlineHit /\ DepthOf(nodes, i) < maxDepth
                   /\ (i = 1 \/ ~SidesSolved(nodes[i].expr)))
                  => kids = want

\* C18 witness: a tree of depth 2 has been built in full, and it holds a
\* solved node and a node with two or more children below the root.
C18_Witness ==
    /\ pc = "extract"
    /\ ~deadlineHit
    /\ maxDepth = 2
    /\ \E i \in 2 .. Len(nodes) :
          /\ DepthOf(nodes, i) = 2
          /\ SidesSolved(nodes[i].expr)
    /\ \E i \in 2 .. Len(nodes) : Len(nodes[i].children) >= 2

\* C19: once the deadline has passed during a findSolution call, the only
\* child still appended is the one whose check before the permutation had
\* already passed; every later deadline check of buildSolutionTree returns
\* without appending, and no depth iteration is started.
C19_AfterDeadline ==
    [][(expired /\ calls' = calls) =>
          /\ nodes' # nodes => (pc = "child" /\ pc' # "child")
          /\ pc = "build" => (pc' # "child" /\ nodes' = nodes)
          /\ pc = "loop" => pc' # "build"]_vars

\* C19 witness: the deadline has passed with the tree partly built, and a
\* check of buildSolutionTree has returned without appending.
C19_Witness ==
    /\ expired
    /\ deadlineHit
    /\ pc = "build"
    /\ Len(nodes) >= 3

\* the value v = c of a solution, as an assignment of c to v
AssignmentOf(sol) ==
    IF sol.left.type = "Variable"
    THEN [n \in {sol.left.name} |-> sol.right.value]
    ELSE [n \in {sol.right.name} |-> sol.left.value]

\* sol is v = c or c = v with c one NumberLiteral
IsValueOfVariable(sol) ==
    /\ sol.type = "Equation"
    /\ \/ (sol.left.type = "Variable" /\ sol.right.type = "NumberLiteral")
       \/ (sol.right.type = "Variable" /\ sol.left.type = "NumberLiteral")

\* C20: for an input equation, every returned solution v = c or c = v with c
\* a NumberLiteral solves it: with c for v, the two sides of the input
\* evaluate to the same value.
C20_SolutionsSolveInput ==
    (pc = "returned" /\ parseText(input).e.type = "Equation") =>
        \A i \in 1 .. Len(result.solutions) :
            IsValueOfVariable(result.solutions[i]) =>
                LET orig == parseText(input).e
                    env == AssignmentOf(result.solutions[i])
                IN  NumEq(Eval(orig.left, env), Eval(orig.right, env))

\* the nodes of tree at depth k or less, in the order of tree, the nodes at
\* depth k without their children
Restrict(tree, k) ==
    LET Keeps(i) == DepthOf(tree, i) <= k
        kept == SelectSeq([i \in 1 .. Len(tree) |-> i], Keeps)
        Rank(i) == Cardinality({j \in 1 .. i : Keeps(j)})
        Kids(i) == IF DepthOf(tree, i) < k
                   THEN [c \in 1 .. Len(tree[i].children) |->
                            Rank(tree[i].children[c])]
                   ELSE <<>>
    IN  [n \in 1 .. Len(kept) |->
            [tree[kept[n]] EXCEPT !.children = Kids(kept[n])]]

\* tree has a solved node
HasSolvedNode(tree) ==
    \E i \in 1 .. Len(tree) : SidesSolved(tree[i].expr)

\* C21: in a call whose simplified input is not solved and whose deadline
\* does not pass, the k-th iteration builds the tree of bound k, and that
\* tree down to depth k - 1 is the tree of the iteration before; an
\* iteration is started only when the tree before it has no solved node;
\* findSolution returns solutions at a bound d in 1..10 that is the first
\* whose tree has a solved node, and every solved node of that tree is at
\* depth d.
C21_ShallowestSolutions ==
    (~expired /\ Len(nodes) > 0 /\ ~SidesSolved(nodes[1].expr)) =>
        /\ pc \in {"loop", "build", "child", "extract", "returned"} =>
              /\ maxDepth = iteration + 1
              /\ ~HasSolvedNode(previous)
        /\ pc = "extract" =>
              /\ maxDepth \in 1 .. maxIterations
              /\ Restrict(nodes, maxDepth - 1) = previous
        /\ (pc = "loop" /\ iteration > 0) => ~HasSolvedNode(nodes)
        /\ (pc = "returned" /\ result.solutions # <<>>) =>
              /\ maxDepth \in 1 .. maxIterations
              /\ HasSolvedNode(nodes)
              /\ Restrict(nodes, maxDepth - 1) = previous
              /\ \A i \in 1 .. Len(nodes) :
                    SidesSolved(nodes[i].expr) =>
                        DepthOf(nodes, i) = maxDepth
              /\ \A k \in 1 .. Len(result.solutions) :
                    \E i \in 1 .. Len(nodes) :
                        /\ nodes[i].expr = result.solutions[k]
                        /\ DepthOf(nodes, i) = maxDepth

\* C21 witness: a call whose deadline did not pass has returned solutions at
\* bound 3, after an iteration whose tree had children and no solved
\* node.
C21_Witness ==
    /\ pc = "returned"
    /\ ~expired
    /\ ~SidesSolved(nodes[1].expr)
    /\ result.solutions # <<>>
    /\ maxDepth = 3
    /\ Len(previous) > 1
    /\ Len(nodes) > Len(previous)

\* C22: a result with timedOut = true has no solutions, and a result with
\* solutions has timedOut = false, also when a deadline check cut short the
\* build of the tree the solutions come from.
C22_TimedOutMeansNoSolutions ==
    pc = "returned" =>
        /\ result.timedOut => result.solutions = <<>>
        /\ result.solutions # <<>> => ~result.timedOut

\* C22 witness: the deadline passed while the tree was being built, a check
\* of buildSolutionTree returned early, and the call returned the solutions
\* of that tree.
C22_Witness ==
    /\ pc = "returned"
    /\ deadlineHit
    /\ result.solutions # <<>>
    /\ Len(nodes) > 2

\* C23: whatever the interleaving of the requests, the tree of every
\* successful response is the visualization of the tree that request's own
\* findSolution call built: it is there, and its root is the printed
\* simplified equation of that request.
C23_TreeOfOwnCall ==
    \A r \in Requests :
        requests[r].at = "ok" =>
            /\ requests[r].tree # Null
            /\ requests[r].tree = requests[r].built
            /\ requests[r].tree[1].expr
                   = exprToString(simplify(parseText(requests[r].text).e))

\* C23 witness: request 1 arrived first and was suspended at the import
\* while request 2, with another equation, resumed and was answered with
\* its tree; then request 1 resumed, and its findSolution call has replaced
\* lastSolutionTree with a different tree.
C23_Witness ==
    /\ requests[2].at = "ok"
    /\ requests[1].at = "called"
    /\ requests[1].text # requests[2].text
    /\ requests[1].built # requests[2].tree
    /\ lastSolutionTree = requests[1].built

=============================================================================
